---- MODULE Spec2Model ----
(***************************************************************************)
(* LaserBench: the ray tracer (simulate_laser) and the puzzle generator    *)
(* (generate_puzzle) of scripts/test_all_providers.py.                     *)
(*                                                                         *)
(* A grid is a sequence of rows, each a sequence of glyphs, as the Python  *)
(* list of lists; Python index i is TLA+ index i + 1.                      *)
(***************************************************************************)
EXTENDS Integers, Sequences, FiniteSets, TLC

\* ------------------------------------------------------------------------
\* Bounds of the model
\* ------------------------------------------------------------------------
\* largest number of cells (rows x cols) of a traced grid
MaxCells == 3
\* largest number of mirrors of any kind in a traced grid
MaxMirrors == 1
\* number of portal ids in use (the first MaxPortals of PORTAL_CELLS)
MaxPortals == 1
\* rows of the wide empty grids
WideRows == 2
\* largest mirror_count of the calls that only derive the per-kind counts
MaxCount == 7
\* largest share of a percentage split of those calls
MaxPct == 3
\* most consecutive applications of get_next_direction
MaxReflections == 4
\* largest column given to col_to_letter (three letters from 703 on)
MaxColumn == 730
\* most rows of the one-column grids rendered (two-digit row numbers from 10)
TallRows == 11

\* ------------------------------------------------------------------------
\* Program constants
\* ------------------------------------------------------------------------
\* the step ceiling of simulate_laser (len(path) > 1000)
MaxSteps == 1000

\* max_attempts of generate_puzzle
MaxAttempts == 100

Directions == {"right", "left", "up", "down"}

PORTAL_CELLS == <<"1", "2", "3">>

\* the grave accent glyph of the source, which a TLA+ string cannot hold
Grave == "grave"

DEGRADING_MIRRORS == ("~" :> "/") @@ (Grave :> "\\")

TOGGLE_MIRRORS_ON == ("[/" :> "/") @@ ("[\\" :> "\\")

TOGGLE_MIRRORS_OFF == ("]/" :> "/") @@ ("]\\" :> "\\")

FLIPPING_MIRRORS == ("{/" :> "/") @@ ("{\\" :> "\\")

RegularMirrors == {"/", "\\"}

PortalGlyphs == {PORTAL_CELLS[i] : i \in 1..Len(PORTAL_CELLS)}

\* the value of a name that holds no result (Python None)
None == <<>>

NoExit == [edge |-> "none", position |-> 0]

Alphabet ==
  <<"A", "B", "C", "D", "E", "F", "G", "H", "I", "J", "K", "L", "M",
    "N", "O", "P", "Q", "R", "S", "T", "U", "V", "W", "X", "Y", "Z">>

\* ------------------------------------------------------------------------
\* State
\* ------------------------------------------------------------------------
VARIABLES
  grid,              \* the grid simulate_laser was called with
  start_row,         \* argument of simulate_laser
  start_direction,   \* argument of simulate_laser
  row, col,          \* current position of the ray
  direction,         \* current travel direction
  path,              \* recorded entries [row, col, direction]
  bounces,           \* reflection count
  teleports,         \* teleport count
  degraded_mirrors,  \* positions of degrading mirrors already hit
  toggle_state,      \* position -> BOOLEAN, toggle mirrors seen so far
  flip_state,        \* position -> orientation, flipping mirrors seen so far
  pc,                \* "idle" (no call), "loop", "exit" (return inside the
                     \* loop), "ceiling" (return after the break)
  result,            \* the "exit" entry of the returned dict
  \* generate_puzzle
  gen_pc,            \* "off" (no call), "for" (top of the trial loop),
                     \* "sim" (inside simulate_laser), "returned"
  gen_rows,          \* rows, sampled from the size profile
  gen_cols,          \* cols, sampled from the size profile
  mirror_count,      \* sampled from the size profile
  portal_count,      \* config["portals"]
  mirror_distribution, \* config["mirror_distribution"]
  min_bounces,       \* argument, or the profile's default
  attempt,           \* number of trials started
  best_score,
  best_puzzle        \* None or the best trial's puzzle

simVars == <<grid, start_row, start_direction, row, col, direction, path,
             bounces, teleports, degraded_mirrors, toggle_state, flip_state,
             pc, result>>

genVars == <<gen_pc, gen_rows, gen_cols, mirror_count, portal_count,
             mirror_distribution, min_bounces, attempt, best_score,
             best_puzzle>>

\* a call generate_grid(gen_rows, gen_cols, mirror_count, portal_count,
\* mirror_distribution), followed loop iteration by loop iteration
VARIABLES
  gg_pc,             \* "off", "counts", the loop being run, or "done"
  gg_grid,           \* the local grid
  gg_counts,         \* normal_count, degrading_count, toggle_count,
                     \* flipping_count
  placed,            \* placed, and placed_pair in the portal loop
  portal_index       \* p of the portal loop

placeVars == <<gg_pc, gg_grid, gg_counts, placed, portal_index>>

\* get_next_direction applied to a direction, mirror after mirror
VARIABLES
  ref_script,        \* the script whose get_next_direction is applied
  ref_start,         \* the direction the applications started from
  ref_mirrors,       \* the mirror arguments so far
  ref_direction      \* the last value returned

reflectVars == <<ref_script, ref_start, ref_mirrors, ref_direction>>

\* a call col_to_letter(letter_col)
VARIABLES
  letter_pc,         \* "off", "call" or "returned"
  letter_col,        \* the argument
  letters            \* the value returned

letterVars == <<letter_pc, letter_col, letters>>

\* a call generate_puzzle_ascii(render_grid, render_start_row)
VARIABLES
  render_pc,         \* "off", "call" or "returned"
  render_grid,       \* argument grid
  render_start_row,  \* argument start_row
  ascii              \* the text returned, character by character

renderVars == <<render_pc, render_grid, render_start_row, ascii>>

\* two successive calls simulate_laser(grid, start_row, start_direction)
VARIABLES
  first_trace        \* what the first call returned, None until then

againVars == <<first_trace>>

\* a call simulate_laser(grid, start_row, start_direction) of test_gemini.py
VARIABLES
  gm_pc,             \* "off", "loop", "exit" or "ceiling"
  gm_row, gm_col,    \* current position of the ray
  gm_direction,      \* current travel direction
  gm_path,           \* recorded entries
  gm_result          \* the exit entry returned

geminiVars == <<gm_pc, gm_row, gm_col, gm_direction, gm_path, gm_result>>

moreVars == <<againVars, geminiVars>>

callVars == <<placeVars, reflectVars, letterVars, renderVars, moreVars>>

vars == <<simVars, genVars, callVars>>

\* ------------------------------------------------------------------------
\* Grid helpers
\* ------------------------------------------------------------------------
Rows(g) == Len(g)

Cols(g) == Len(g[1])

Cell(g, r, c) == g[r + 1][c + 1]

InGrid(g, r, c) == r >= 0 /\ r < Rows(g) /\ c >= 0 /\ c < Cols(g)

Positions(g) == (0..(Rows(g) - 1)) \X (0..(Cols(g) - 1))

\* ------------------------------------------------------------------------
\* get_next_direction
\* ------------------------------------------------------------------------
\* the two tables exchanged
GetNextDirection_Swapped(current, mirror) ==
  IF mirror = "/"
  THEN CASE current = "right" -> "down"
         [] current = "left" -> "up"
         [] current = "up" -> "left"
         [] current = "down" -> "right"
  ELSE CASE current = "right" -> "up"
         [] current = "left" -> "down"
         [] current = "up" -> "right"
         [] current = "down" -> "left"

GetNextDirection(current, mirror) ==
  IF mirror = "/"
  THEN CASE current = "right" -> "up"
         [] current = "left" -> "down"
         [] current = "up" -> "right"
         [] current = "down" -> "left"
  ELSE CASE current = "right" -> "down"
         [] current = "left" -> "up"
         [] current = "up" -> "left"
         [] current = "down" -> "right"

\* get_next_direction of test_gemini.py, with a quarter turn for "/"
Gemini_GetNextDirection_Turn(current, mirror) ==
  IF mirror = "/"
  THEN CASE current = "right" -> "up"
         [] current = "left" -> "down"
         [] current = "up" -> "left"
         [] current = "down" -> "right"
  ELSE CASE current = "right" -> "down"
         [] current = "left" -> "up"
         [] current = "up" -> "left"
         [] current = "down" -> "right"

\* get_next_direction of test_gemini.py
Gemini_GetNextDirection(current, mirror) ==
  IF mirror = "/"
  THEN CASE current = "right" -> "up"
         [] current = "left" -> "down"
         [] current = "up" -> "right"
         [] current = "down" -> "left"
  ELSE CASE current = "right" -> "down"
         [] current = "left" -> "up"
         [] current = "up" -> "left"
         [] current = "down" -> "right"

Scripts == {"test_all_providers", "test_gemini"}

ReflectOff ==
  /\ ref_script = "none"
  /\ ref_start = "right"
  /\ ref_mirrors = <<>>
  /\ ref_direction = "right"

\* one more call direction = get_next_direction(direction, mirror)
Reflect ==
  /\ ref_script \in Scripts
  /\ Len(ref_mirrors) < MaxReflections
  /\ \E mirror \in RegularMirrors :
       /\ ref_direction' =
            IF ref_script = "test_gemini"
            THEN Gemini_GetNextDirection(ref_direction, mirror)
            ELSE GetNextDirection(ref_direction, mirror)
       /\ ref_mirrors' = Append(ref_mirrors, mirror)
  /\ UNCHANGED <<ref_script, ref_start>>
  /\ UNCHANGED <<simVars, genVars, placeVars, letterVars, renderVars,
               moreVars>>

\* ------------------------------------------------------------------------
\* col_to_letter: the letters of a 1-indexed column, most significant first
\* ------------------------------------------------------------------------
\* plain base 26 with "A" as the digit 0: col is not decremented
RECURSIVE ColToLetter_ZeroDigit(_)
ColToLetter_ZeroDigit(c) ==
  IF c > 0
  THEN ColToLetter_ZeroDigit(c \div 26) \o <<Alphabet[(c % 26) + 1]>>
  ELSE <<>>

RECURSIVE ColToLetter(_)
ColToLetter(c) ==
  IF c > 0
  THEN ColToLetter((c - 1) \div 26) \o <<Alphabet[((c - 1) % 26) + 1]>>
  ELSE <<>>

LetterOff ==
  /\ letter_pc = "off"
  /\ letter_col = 0
  /\ letters = <<>>

\* the call returns
ColumnLetter ==
  /\ letter_pc = "call"
  /\ letters' = ColToLetter(letter_col)
  /\ letter_pc' = "returned"
  /\ UNCHANGED letter_col
  /\ UNCHANGED <<simVars, genVars, placeVars, reflectVars, renderVars,
               moreVars>>

\* ------------------------------------------------------------------------
\* find_portal_exit: first cell in row-major order, other than the entry
\* cell, that holds portal_char; None when there is none
\* ------------------------------------------------------------------------
RowMajorBefore(p, q) == p[1] < q[1] \/ (p[1] = q[1] /\ p[2] <= q[2])

\* the entry cell is a candidate too
FindPortalExit_IncludesEntry(g, portal_char, entry_row, entry_col) ==
  LET others == {p \in Positions(g) : Cell(g, p[1], p[2]) = portal_char}
  IN IF others = {}
     THEN None
     ELSE CHOOSE p \in others : \A q \in others : RowMajorBefore(p, q)

FindPortalExit(g, portal_char, entry_row, entry_col) ==
  LET others == {p \in Positions(g) :
                   /\ Cell(g, p[1], p[2]) = portal_char
                   /\ (p[1] # entry_row \/ p[2] # entry_col)}
  IN IF others = {}
     THEN None
     ELSE CHOOSE p \in others : \A q \in others : RowMajorBefore(p, q)

\* ------------------------------------------------------------------------
\* One cell of movement in a direction (the if/elif chains of the loop)
\* ------------------------------------------------------------------------
\* rows counted upward
Advance_RowsUpward(r, c, d) ==
  CASE d = "right" -> <<r, c + 1>>
    [] d = "left" -> <<r, c - 1>>
    [] d = "up" -> <<r + 1, c>>
    [] d = "down" -> <<r - 1, c>>

Advance(r, c, d) ==
  CASE d = "right" -> <<r, c + 1>>
    [] d = "left" -> <<r, c - 1>>
    [] d = "up" -> <<r - 1, c>>
    [] d = "down" -> <<r + 1, c>>

\* ------------------------------------------------------------------------
\* The boundary test at the top of the loop and make_result's exit entry
\* ------------------------------------------------------------------------
\* positions taken from the 0-indexed row and column
ExitDescriptor_ZeroIndexed(g, r, c) ==
  IF r < 0 THEN [edge |-> "top", position |-> ColToLetter(c)]
  ELSE IF r >= Rows(g) THEN [edge |-> "bottom", position |-> ColToLetter(c)]
  ELSE IF c < 0 THEN [edge |-> "left", position |-> r]
  ELSE [edge |-> "right", position |-> r]

ExitDescriptor(g, r, c) ==
  IF r < 0 THEN [edge |-> "top", position |-> ColToLetter(c + 1)]
  ELSE IF r >= Rows(g) THEN [edge |-> "bottom", position |-> ColToLetter(c + 1)]
  ELSE IF c < 0 THEN [edge |-> "left", position |-> r + 1]
  ELSE [edge |-> "right", position |-> r + 1]

\* the result returned after the break
CeilingDescriptor == [edge |-> "right", position |-> 1]

\* ------------------------------------------------------------------------
\* The effect of each kind of cell on direction, counters and mirror state
\* ------------------------------------------------------------------------
Put(f, k, v) == [x \in (DOMAIN f) \cup {k} |-> IF x = k THEN v ELSE f[x]]

\* the reflection is not counted
MirrorStep_Uncounted(cell, d, b) ==
  [direction |-> GetNextDirection(d, cell), bounces |-> b]

MirrorStep(cell, d, b) ==
  [direction |-> GetNextDirection(d, cell), bounces |-> b + 1]

\* the hit is not marked
DegradingStep_NeverBreaks(cell, pos, d, b, degraded) ==
  IF pos \notin degraded
  THEN [direction |-> GetNextDirection(d, DEGRADING_MIRRORS[cell]),
        bounces |-> b + 1,
        degraded |-> degraded]
  ELSE [direction |-> d, bounces |-> b, degraded |-> degraded]

DegradingStep(cell, pos, d, b, degraded) ==
  IF pos \notin degraded
  THEN [direction |-> GetNextDirection(d, DEGRADING_MIRRORS[cell]),
        bounces |-> b + 1,
        degraded |-> degraded \cup {pos}]
  ELSE [direction |-> d, bounces |-> b, degraded |-> degraded]

ToggleOrientation(cell) ==
  IF cell \in DOMAIN TOGGLE_MIRRORS_ON
  THEN TOGGLE_MIRRORS_ON[cell]
  ELSE TOGGLE_MIRRORS_OFF[cell]

\* the state flips on reflecting visits only
ToggleStep_FlipOnReflect(cell, pos, d, b, toggle) ==
  LET seen == IF pos \in DOMAIN toggle
              THEN toggle
              ELSE Put(toggle, pos, cell \in DOMAIN TOGGLE_MIRRORS_ON)
  IN [direction |-> IF seen[pos]
                    THEN GetNextDirection(d, ToggleOrientation(cell))
                    ELSE d,
      bounces |-> IF seen[pos] THEN b + 1 ELSE b,
      toggle |-> Put(seen, pos, FALSE)]

ToggleStep(cell, pos, d, b, toggle) ==
  LET seen == IF pos \in DOMAIN toggle
              THEN toggle
              ELSE Put(toggle, pos, cell \in DOMAIN TOGGLE_MIRRORS_ON)
  IN [direction |-> IF seen[pos]
                    THEN GetNextDirection(d, ToggleOrientation(cell))
                    ELSE d,
      bounces |-> IF seen[pos] THEN b + 1 ELSE b,
      toggle |-> Put(seen, pos, ~seen[pos])]

\* the orientation is not rotated after the hit
FlippingStep_KeepsOrientation(cell, pos, d, b, flip) ==
  LET seen == IF pos \in DOMAIN flip
              THEN flip
              ELSE Put(flip, pos, FLIPPING_MIRRORS[cell])
  IN [direction |-> GetNextDirection(d, seen[pos]),
      bounces |-> b + 1,
      flip |-> seen]

FlippingStep(cell, pos, d, b, flip) ==
  LET seen == IF pos \in DOMAIN flip
              THEN flip
              ELSE Put(flip, pos, FLIPPING_MIRRORS[cell])
      current_orientation == seen[pos]
  IN [direction |-> GetNextDirection(d, current_orientation),
      bounces |-> b + 1,
      flip |-> Put(seen, pos, IF current_orientation = "/" THEN "\\" ELSE "/")]

\* the ray lands on the partner cell itself
PortalStep_ArriveAtPartner(exit_pos, d) == exit_pos

\* where the ray is after entering a portal cell whose partner is exit_pos
PortalStep(exit_pos, d) == Advance(exit_pos[1], exit_pos[2], d)

\* ------------------------------------------------------------------------
\* simulate_laser
\* ------------------------------------------------------------------------
\* the path is not followed beyond PathCap entries
PathCap == MaxSteps + 2 * MaxPortals + 2

\* the three state maps outlive the call
SimStart_KeepsMaps(g, sr, sd) ==
  /\ grid' = g
  /\ start_row' = sr
  /\ start_direction' = sd
  /\ row' = sr
  /\ col' = 0
  /\ direction' = sd
  /\ path' = <<>>
  /\ bounces' = 0
  /\ teleports' = 0
  /\ degraded_mirrors' = degraded_mirrors
  /\ toggle_state' = toggle_state
  /\ flip_state' = flip_state
  /\ pc' = "loop"
  /\ result' = NoExit

SimStart(g, sr, sd) ==
  /\ grid' = g
  /\ start_row' = sr
  /\ start_direction' = sd
  /\ row' = sr
  /\ col' = 0
  /\ direction' = sd
  /\ path' = <<>>
  /\ bounces' = 0
  /\ teleports' = 0
  /\ degraded_mirrors' = {}
  /\ toggle_state' = <<>>
  /\ flip_state' = <<>>
  /\ pc' = "loop"
  /\ result' = NoExit

\* the four boundary tests at the top of the loop
Exit ==
  /\ pc = "loop"
  /\ ~InGrid(grid, row, col)
  /\ result' = ExitDescriptor(grid, row, col)
  /\ pc' = "exit"
  /\ UNCHANGED <<grid, start_row, start_direction, row, col, direction, path,
                 bounces, teleports, degraded_mirrors, toggle_state,
                 flip_state>>
  /\ UNCHANGED <<genVars, callVars>>

\* the rest of one loop iteration
Visit ==
  /\ pc = "loop"
  /\ InGrid(grid, row, col)
  /\ Len(path) < PathCap
  /\ LET cell == Cell(grid, row, col)
         pos == <<row, col>>
         newPath == Append(path, [row |-> row, col |-> col,
                                  direction |-> direction])
         exit_pos == IF cell \in PortalGlyphs
                     THEN FindPortalExit(grid, cell, row, col)
                     ELSE None
         eff ==
           IF cell \in RegularMirrors
           THEN MirrorStep(cell, direction, bounces)
                  @@ [degraded |-> degraded_mirrors, toggle |-> toggle_state,
                      flip |-> flip_state]
           ELSE IF cell \in DOMAIN DEGRADING_MIRRORS
           THEN DegradingStep(cell, pos, direction, bounces, degraded_mirrors)
                  @@ [toggle |-> toggle_state, flip |-> flip_state]
           ELSE IF cell \in DOMAIN TOGGLE_MIRRORS_ON
                   \/ cell \in DOMAIN TOGGLE_MIRRORS_OFF
           THEN ToggleStep(cell, pos, direction, bounces, toggle_state)
                  @@ [degraded |-> degraded_mirrors, flip |-> flip_state]
           ELSE IF cell \in DOMAIN FLIPPING_MIRRORS
           THEN FlippingStep(cell, pos, direction, bounces, flip_state)
                  @@ [degraded |-> degraded_mirrors, toggle |-> toggle_state]
           ELSE [direction |-> direction, bounces |-> bounces,
                 degraded |-> degraded_mirrors, toggle |-> toggle_state,
                 flip |-> flip_state]
     IN /\ path' = newPath
        /\ direction' = eff.direction
        /\ bounces' = eff.bounces
        /\ degraded_mirrors' = eff.degraded
        /\ toggle_state' = eff.toggle
        /\ flip_state' = eff.flip
        /\ IF exit_pos # None
           THEN \* teleport, then "continue": the ceiling test is skipped
                /\ teleports' = teleports + 1
                /\ row' = PortalStep(exit_pos, direction)[1]
                /\ col' = PortalStep(exit_pos, direction)[2]
                /\ pc' = "loop"
                /\ result' = result
           ELSE /\ teleports' = teleports
                /\ row' = Advance(row, col, eff.direction)[1]
                /\ col' = Advance(row, col, eff.direction)[2]
                /\ IF Len(newPath) > MaxSteps
                   THEN pc' = "ceiling" /\ result' = CeilingDescriptor
                   ELSE pc' = "loop" /\ result' = result
  /\ UNCHANGED <<grid, start_row, start_direction>>
  /\ UNCHANGED <<genVars, callVars>>


AgainOff == first_trace = None

\* the first call has returned; the same grid is traced a second time
TraceAgain ==
  /\ pc \in {"exit", "ceiling"}
  /\ gen_pc = "off"
  /\ first_trace = None
  /\ first_trace' = [grid |-> grid, path |-> path, exit |-> result,
                     bounces |-> bounces, teleports |-> teleports]
  /\ SimStart(grid, start_row, start_direction)
  /\ UNCHANGED <<genVars, placeVars, reflectVars, letterVars, renderVars,
                 geminiVars>>

GeminiOff ==
  /\ gm_pc = "off"
  /\ gm_row = 0
  /\ gm_col = 0
  /\ gm_direction = "right"
  /\ gm_path = <<>>
  /\ gm_result = NoExit

MoreOff == AgainOff /\ GeminiOff

\* ------------------------------------------------------------------------
\* simulate_laser of test_gemini.py
\* ------------------------------------------------------------------------
\* col_to_letter of test_gemini.py
RECURSIVE Gemini_ColToLetter(_)
Gemini_ColToLetter(c) ==
  IF c > 0
  THEN Gemini_ColToLetter((c - 1) \div 26) \o <<Alphabet[((c - 1) % 26) + 1]>>
  ELSE <<>>

\* the exit entry of the first boundary test that holds
Gemini_ExitDescriptor(g, r, c) ==
  IF r < 0 THEN [edge |-> "top", position |-> Gemini_ColToLetter(c + 1)]
  ELSE IF r >= Rows(g)
  THEN [edge |-> "bottom", position |-> Gemini_ColToLetter(c + 1)]
  ELSE IF c < 0 THEN [edge |-> "left", position |-> r + 1]
  ELSE [edge |-> "right", position |-> r + 1]

\* only "/" reflects
Gemini_NextDirection_SlashOnly(cell, d) ==
  IF cell = "/" THEN Gemini_GetNextDirection(d, cell) ELSE d

\* if cell in ["/", "\\"]: direction = get_next_direction(direction, cell)
Gemini_NextDirection(cell, d) ==
  IF cell \in {"/", "\\"} THEN Gemini_GetNextDirection(d, cell) ELSE d

\* simulate_laser(grid, start_row, start_direction) of test_gemini.py is
\* called once the call of test_all_providers.py has returned
Gemini_Call ==
  /\ gm_pc = "off"
  /\ pc \in {"exit", "ceiling"}
  /\ gen_pc = "off"
  /\ gm_pc' = "loop"
  /\ gm_row' = start_row
  /\ gm_col' = 0
  /\ gm_direction' = start_direction
  /\ gm_path' = <<>>
  /\ gm_result' = NoExit
  /\ UNCHANGED <<simVars, genVars, placeVars, reflectVars, letterVars,
                 renderVars, againVars>>

\* the four boundary tests at the top of the loop
Gemini_Exit ==
  /\ gm_pc = "loop"
  /\ ~InGrid(grid, gm_row, gm_col)
  /\ gm_result' = Gemini_ExitDescriptor(grid, gm_row, gm_col)
  /\ gm_pc' = "exit"
  /\ UNCHANGED <<gm_row, gm_col, gm_direction, gm_path>>
  /\ UNCHANGED <<simVars, genVars, placeVars, reflectVars, letterVars,
                 renderVars, againVars>>

\* the rest of one loop iteration
Gemini_Visit ==
  /\ gm_pc = "loop"
  /\ InGrid(grid, gm_row, gm_col)
  /\ LET newPath == Append(gm_path, [row |-> gm_row, col |-> gm_col,
                                     direction |-> gm_direction])
         d == Gemini_NextDirection(Cell(grid, gm_row, gm_col), gm_direction)
     IN /\ gm_path' = newPath
        /\ gm_direction' = d
        /\ gm_row' = CASE d = "up" -> gm_row - 1
                       [] d = "down" -> gm_row + 1
                       [] OTHER -> gm_row
        /\ gm_col' = CASE d = "right" -> gm_col + 1
                       [] d = "left" -> gm_col - 1
                       [] OTHER -> gm_col
        /\ IF Len(newPath) > MaxSteps
           THEN gm_pc' = "ceiling" /\ gm_result' = CeilingDescriptor
           ELSE gm_pc' = "loop" /\ gm_result' = gm_result
  /\ UNCHANGED <<simVars, genVars, placeVars, reflectVars, letterVars,
                 renderVars, againVars>>

\* ------------------------------------------------------------------------
\* generate_grid: the grids the random placement can return
\* ------------------------------------------------------------------------
\* the first three counts rounded to the nearest integer
KindCounts_Rounded(mc, dist) ==
  LET total_pct == dist[1] + dist[2] + dist[3] + dist[4]
      normal_count == (2 * mc * dist[1] + total_pct) \div (2 * total_pct)
      degrading_count == (2 * mc * dist[2] + total_pct) \div (2 * total_pct)
      toggle_count == (2 * mc * dist[3] + total_pct) \div (2 * total_pct)
  IN [normal |-> normal_count,
      degrading |-> degrading_count,
      toggle |-> toggle_count,
      flipping |-> mc - normal_count - degrading_count - toggle_count]

\* int(mirror_count * pct / total_pct) for the first three kinds, the
\* remainder for the flipping kind
KindCounts(mc, dist) ==
  LET total_pct == dist[1] + dist[2] + dist[3] + dist[4]
      normal_count == (mc * dist[1]) \div total_pct
      degrading_count == (mc * dist[2]) \div total_pct
      toggle_count == (mc * dist[3]) \div total_pct
  IN [normal |-> normal_count,
      degrading |-> degrading_count,
      toggle |-> toggle_count,
      flipping |-> mc - normal_count - degrading_count - toggle_count]

Min(a, b) == IF a < b THEN a ELSE b

CountOf(m, glyphs) == Cardinality({p \in DOMAIN m : m[p] \in glyphs})

CellsOf(nr, nc) == (0..(nr - 1)) \X (0..(nc - 1))

\* the grid of nr x nc cells holding m[p] at every p in DOMAIN m, "." elsewhere
MakeGrid(nr, nc, m) ==
  [r \in 1..nr |->
     [c \in 1..nc |->
        IF <<r - 1, c - 1>> \in DOMAIN m THEN m[<<r - 1, c - 1>>] ELSE "."]]

\* every element is placed on a cell that is still ".", so the outcomes are
\* the grids with exactly the derived number of cells of each kind and two
\* cells for each of the first min(portal_count, 3) portal ids
GenerateGrid(nr, nc, mc, np, dist) ==
  LET k == KindCounts(mc, dist)
      ids == {PORTAL_CELLS[i] : i \in 1..Min(np, Len(PORTAL_CELLS))}
      glyphs == (IF k.normal > 0 THEN RegularMirrors ELSE {})
                  \cup (IF k.degrading > 0 THEN DOMAIN DEGRADING_MIRRORS ELSE {})
                  \cup (IF k.toggle > 0
                        THEN DOMAIN TOGGLE_MIRRORS_ON \cup DOMAIN TOGGLE_MIRRORS_OFF
                        ELSE {})
                  \cup (IF k.flipping > 0 THEN DOMAIN FLIPPING_MIRRORS ELSE {})
                  \cup ids
      filled == {S \in SUBSET CellsOf(nr, nc) :
                   Cardinality(S) = mc + 2 * Cardinality(ids)}
  IN {MakeGrid(nr, nc, m) :
        m \in {x \in UNION {[S -> glyphs] : S \in filled} :
                 /\ CountOf(x, RegularMirrors) = k.normal
                 /\ CountOf(x, DOMAIN DEGRADING_MIRRORS) = k.degrading
                 /\ CountOf(x, DOMAIN TOGGLE_MIRRORS_ON
                                 \cup DOMAIN TOGGLE_MIRRORS_OFF) = k.toggle
                 /\ CountOf(x, DOMAIN FLIPPING_MIRRORS) = k.flipping
                 /\ \A id \in ids : CountOf(x, {id}) = 2}}

\* ------------------------------------------------------------------------
\* generate_grid, one loop iteration at a time
\* ------------------------------------------------------------------------
NoCounts == [normal |-> 0, degrading |-> 0, toggle |-> 0, flipping |-> 0]

PlaceOff ==
  /\ gg_pc = "off"
  /\ gg_grid = <<>>
  /\ gg_counts = NoCounts
  /\ placed = 0
  /\ portal_index = 0


SetCell(g, r, c, v) == [g EXCEPT ![r + 1][c + 1] = v]

\* every cell takes a new element
CanPlace_Anywhere(g, r, c) == TRUE

\* the test grid[r][c] == "." of every placement loop
CanPlace(g, r, c) == Cell(g, r, c) = "."

\* one test of "while placed < count" and, when it passes, one iteration:
\* random r and c, and a random glyph of the kind put there when the cell is
\* empty; when the test fails, "placed = 0" before the next loop
PlaceLoop(count, glyphs, next) ==
  /\ IF placed < count
     THEN \E r \in 0..(gen_rows - 1), c \in 0..(gen_cols - 1), v \in glyphs :
            IF CanPlace(gg_grid, r, c)
            THEN /\ gg_grid' = SetCell(gg_grid, r, c, v)
                 /\ placed' = placed + 1
                 /\ UNCHANGED gg_pc
            ELSE UNCHANGED <<gg_grid, placed, gg_pc>>
     ELSE /\ gg_pc' = next
          /\ placed' = 0
          /\ UNCHANGED gg_grid
  /\ UNCHANGED <<gg_counts, portal_index>>
  /\ UNCHANGED <<simVars, genVars, reflectVars, letterVars, renderVars,
               moreVars>>

\* the per-kind counts
DeriveCounts ==
  /\ gg_pc = "counts"
  /\ gg_counts' = KindCounts(mirror_count, mirror_distribution)
  /\ gg_pc' = "normal"
  /\ placed' = 0
  /\ UNCHANGED <<gg_grid, portal_index>>
  /\ UNCHANGED <<simVars, genVars, reflectVars, letterVars, renderVars,
               moreVars>>

PlaceNormal ==
  /\ gg_pc = "normal"
  /\ PlaceLoop(gg_counts.normal, RegularMirrors, "degrading")

PlaceDegrading ==
  /\ gg_pc = "degrading"
  /\ PlaceLoop(gg_counts.degrading, DOMAIN DEGRADING_MIRRORS, "toggle")

PlaceToggle ==
  /\ gg_pc = "toggle"
  /\ PlaceLoop(gg_counts.toggle,
               DOMAIN TOGGLE_MIRRORS_ON \cup DOMAIN TOGGLE_MIRRORS_OFF,
               "flipping")

PlaceFlipping ==
  /\ gg_pc = "flipping"
  /\ PlaceLoop(gg_counts.flipping, DOMAIN FLIPPING_MIRRORS, "portals")

\* for p in range(min(portal_count, len(PORTAL_CELLS))), with its inner
\* "while placed_pair < 2"; the grid is returned after the last pair
PlacePortals ==
  /\ gg_pc = "portals"
  /\ IF portal_index < Min(portal_count, Len(PORTAL_CELLS))
     THEN IF placed < 2
          THEN \E r \in 0..(gen_rows - 1), c \in 0..(gen_cols - 1) :
                 IF CanPlace(gg_grid, r, c)
                 THEN /\ gg_grid' =
                           SetCell(gg_grid, r, c, PORTAL_CELLS[portal_index + 1])
                      /\ placed' = placed + 1
                      /\ UNCHANGED <<gg_pc, portal_index>>
                 ELSE UNCHANGED <<gg_grid, placed, gg_pc, portal_index>>
          ELSE /\ portal_index' = portal_index + 1
               /\ placed' = 0
               /\ UNCHANGED <<gg_grid, gg_pc>>
     ELSE /\ gg_pc' = "done"
          /\ UNCHANGED <<gg_grid, placed, portal_index>>
  /\ UNCHANGED gg_counts
  /\ UNCHANGED <<simVars, genVars, reflectVars, letterVars, renderVars,
               moreVars>>

\* ------------------------------------------------------------------------
\* generate_puzzle_ascii: the text as the sequence of its characters
\* ------------------------------------------------------------------------
\* the characters of a cell glyph
Chars ==
  ("." :> <<".">>) @@ ("/" :> <<"/">>) @@ ("\\" :> <<"\\">>)
    @@ ("~" :> <<"~">>) @@ (Grave :> <<Grave>>)
    @@ ("[/" :> <<"[", "/">>) @@ ("[\\" :> <<"[", "\\">>)
    @@ ("]/" :> <<"]", "/">>) @@ ("]\\" :> <<"]", "\\">>)
    @@ ("{/" :> <<"{", "/">>) @@ ("{\\" :> <<"{", "\\">>)
    @@ ("1" :> <<"1">>) @@ ("2" :> <<"2">>) @@ ("3" :> <<"3">>)

DecimalDigits == <<"0", "1", "2", "3", "4", "5", "6", "7", "8", "9">>

\* str(n) for n >= 0
RECURSIVE Str(_)
Str(n) ==
  IF n < 10
  THEN <<DecimalDigits[n + 1]>>
  ELSE Str(n \div 10) \o <<DecimalDigits[(n % 10) + 1]>>

\* s.rjust(width)
RECURSIVE RJust(_, _)
RJust(s, width) == IF Len(s) >= width THEN s ELSE RJust(<<" ">> \o s, width)

\* ch * n
RECURSIVE Repeat(_, _)
Repeat(ch, n) == IF n <= 0 THEN <<>> ELSE <<ch>> \o Repeat(ch, n - 1)

\* the pieces appended to the output one after the other
RECURSIVE Joined(_)
Joined(pieces) ==
  IF pieces = <<>> THEN <<>> ELSE Head(pieces) \o Joined(Tail(pieces))

\* the marker on the line before the start row
Arrow_LineBefore(r, sr) == IF r + 1 = sr THEN ">" ELSE " "

Arrow(r, sr) == IF r = sr THEN ">" ELSE " "

Border(cols) == <<" ", " ", "+">> \o Repeat("-", cols * 2 + 1) \o <<"+">>

GeneratePuzzleAscii(g, sr) ==
  LET rows == Len(g)
      cols == Len(g[1])
      Line(r) ==
        RJust(Str(r + 1), 2) \o <<"|", Arrow(r, sr)>>
          \o Joined([c \in 1..cols |-> Chars[Cell(g, r, c - 1)] \o <<" ">>])
          \o <<"|", "\n">>
  IN <<" ", " ", " ", " ">>
       \o Joined([c \in 1..cols |-> ColToLetter(c) \o <<" ">>]) \o <<"\n">>
       \o Border(cols) \o <<"\n">>
       \o Joined([r \in 1..rows |-> Line(r - 1)])
       \o Border(cols)

RenderOff ==
  /\ render_pc = "off"
  /\ render_grid = <<>>
  /\ render_start_row = 0
  /\ ascii = <<>>

\* the call returns
RenderPuzzle ==
  /\ render_pc = "call"
  /\ ascii' = GeneratePuzzleAscii(render_grid, render_start_row)
  /\ render_pc' = "returned"
  /\ UNCHANGED <<render_grid, render_start_row>>
  /\ UNCHANGED <<simVars, genVars, placeVars, reflectVars, letterVars,
               moreVars>>

CallsIdle == PlaceOff /\ ReflectOff /\ LetterOff /\ RenderOff /\ MoreOff

\* ------------------------------------------------------------------------
\* generate_puzzle
\* ------------------------------------------------------------------------
SimIdle ==
  /\ grid = <<>>
  /\ start_row = 0
  /\ start_direction = "right"
  /\ row = 0
  /\ col = 0
  /\ direction = "right"
  /\ path = <<>>
  /\ bounces = 0
  /\ teleports = 0
  /\ degraded_mirrors = {}
  /\ toggle_state = <<>>
  /\ flip_state = <<>>
  /\ pc = "idle"
  /\ result = NoExit

\* one pass of the for loop up to the call of simulate_laser
TrialStart ==
  /\ gen_pc = "for"
  /\ attempt < MaxAttempts
  /\ \E g \in GenerateGrid(gen_rows, gen_cols, mirror_count, portal_count,
                           mirror_distribution) :
       \E sr \in 0..(gen_rows - 1) :
         SimStart(g, sr, "right")
  /\ attempt' = attempt + 1
  /\ gen_pc' = "sim"
  /\ UNCHANGED <<gen_rows, gen_cols, mirror_count, portal_count,
                 mirror_distribution, min_bounces, best_score, best_puzzle>>
  /\ UNCHANGED callVars

Score(b, t) == b + t * 2

\* an equal score replaces the candidate too
Improves_OrEqual(score, best) == score >= best

Improves(score, best) == score > best

\* the threshold is met only when exceeded
EarlyExit_Strict(best, mb) == best > mb * 2

\* the test of the early exit
EarlyExit(best, mb) == best >= mb * 2

\* the step out of the grid counted in path_length
Puzzle_CountsExit(g, sr, answer, p, b, t) ==
  [grid |-> g, start_row |-> sr, ascii |-> GeneratePuzzleAscii(g, sr),
   answer |-> answer, path_length |-> Len(p) + 1, bounces |-> b,
   teleports |-> t]

Puzzle(g, sr, answer, p, b, t) ==
  [grid |-> g, start_row |-> sr, ascii |-> GeneratePuzzleAscii(g, sr),
   answer |-> answer, path_length |-> Len(p), bounces |-> b, teleports |-> t]

\* the rest of the pass, from the return of simulate_laser: scoring, the
\* early exit, the end of the loop and the return of best_puzzle
TrialEnd ==
  /\ gen_pc = "sim"
  /\ pc \in {"exit", "ceiling"}
  /\ LET score == Score(bounces, teleports)
         newBest == IF Improves(score, best_score) THEN score ELSE best_score
     IN /\ best_score' = newBest
        /\ best_puzzle' = IF Improves(score, best_score)
                          THEN Puzzle(grid, start_row, result, path,
                                      bounces, teleports)
                          ELSE best_puzzle
        /\ gen_pc' = IF EarlyExit(newBest, min_bounces) \/ attempt >= MaxAttempts
                     THEN "returned"
                     ELSE "for"
  /\ pc' = "idle"
  /\ UNCHANGED <<grid, start_row, start_direction, row, col, direction, path,
                 bounces, teleports, degraded_mirrors, toggle_state,
                 flip_state, result>>
  /\ UNCHANGED <<gen_rows, gen_cols, mirror_count, portal_count,
                 mirror_distribution, min_bounces, attempt>>
  /\ UNCHANGED callVars

\* ------------------------------------------------------------------------
\* The calls explored
\* ------------------------------------------------------------------------
\* the returned puzzle traced again: simulate_laser(puzzle["grid"],
\* puzzle["start_row"])
Retrace ==
  /\ gen_pc = "returned"
  /\ best_puzzle # None
  /\ SimStart(best_puzzle.grid, best_puzzle.start_row, "right")
  /\ gen_pc' = "retrace"
  /\ UNCHANGED <<gen_rows, gen_cols, mirror_count, portal_count,
                 mirror_distribution, min_bounces, attempt, best_score,
                 best_puzzle>>
  /\ UNCHANGED callVars

GenOff ==
  /\ gen_pc = "off"
  /\ gen_rows = 0
  /\ gen_cols = 0
  /\ mirror_count = 0
  /\ portal_count = 0
  /\ mirror_distribution = <<100, 0, 0, 0>>
  /\ min_bounces = 0
  /\ attempt = 0
  /\ best_score = 0
  /\ best_puzzle = None

MirrorGlyphs ==
  RegularMirrors \cup DOMAIN DEGRADING_MIRRORS \cup DOMAIN TOGGLE_MIRRORS_ON
    \cup DOMAIN TOGGLE_MIRRORS_OFF \cup DOMAIN FLIPPING_MIRRORS

UsedPortalGlyphs == {PORTAL_CELLS[i] : i \in 1..MaxPortals}

MirrorMaps(cells) ==
  UNION {[S -> MirrorGlyphs] :
           S \in {T \in SUBSET cells : Cardinality(T) <= MaxMirrors}}

\* every portal id on at most two cells (one cell: a portal without partner)
PortalMaps(cells) ==
  {m \in UNION {[S -> UsedPortalGlyphs] :
                  S \in {T \in SUBSET cells :
                           Cardinality(T) <= 2 * MaxPortals}} :
     \A id \in UsedPortalGlyphs : CountOf(m, {id}) <= 2}

GridsOf(nr, nc) ==
  {MakeGrid(nr, nc, x[1] @@ x[2]) :
     x \in {y \in MirrorMaps(CellsOf(nr, nc)) \X PortalMaps(CellsOf(nr, nc)) :
              (DOMAIN y[1]) \cap (DOMAIN y[2]) = {}}}

Shapes(cells) == {s \in (1..cells) \X (1..cells) : s[1] * s[2] <= cells}

\* the grids of at most cells cells
Grids(cells) == UNION {GridsOf(s[1], s[2]) : s \in Shapes(cells)}

\* the ray starts one column before column 0
SimCall_OutsideLeft(g, sr, sd) ==
  /\ grid = g
  /\ start_row = sr
  /\ start_direction = sd
  /\ row = sr
  /\ col = -1
  /\ direction = sd
  /\ path = <<>>
  /\ bounces = 0
  /\ teleports = 0
  /\ degraded_mirrors = {}
  /\ toggle_state = <<>>
  /\ flip_state = <<>>
  /\ pc = "loop"
  /\ result = NoExit

SimCall(g, sr, sd) ==
  /\ grid = g
  /\ start_row = sr
  /\ start_direction = sd
  /\ row = sr
  /\ col = 0
  /\ direction = sd
  /\ path = <<>>
  /\ bounces = 0
  /\ teleports = 0
  /\ degraded_mirrors = {}
  /\ toggle_state = <<>>
  /\ flip_state = <<>>
  /\ pc = "loop"
  /\ result = NoExit

\* a call simulate_laser(g, sr) with sr a row of g: the ray starts moving
\* right, as in every call the repository makes
Init ==
  /\ \E g \in Grids(MaxCells) :
       \E sr \in 0..(Rows(g) - 1) : SimCall(g, sr, "right")
  /\ GenOff
  /\ CallsIdle

Next == Exit \/ Visit

Spec == Init /\ [][Next]_vars

\* the same call made twice in succession
TwiceNext == Exit \/ Visit \/ TraceAgain

TwiceSpec == Init /\ [][TwiceNext]_vars

\* a call simulate_laser(g, sr, sd) with any of the four start directions,
\* on the grids of fewer than MaxCells cells
DirInit ==
  /\ \E g \in Grids(MaxCells - 1) :
       \E sr \in 0..(Rows(g) - 1) :
         \E sd \in Directions : SimCall(g, sr, sd)
  /\ GenOff
  /\ CallsIdle

DirSpec == DirInit /\ [][Next]_vars

\* a call simulate_laser(g, sr) on an empty grid about as wide as the step
\* ceiling
EmptyGrid(nr, nc) == MakeGrid(nr, nc, <<>>)

WideInit ==
  /\ \E nr \in 1..WideRows :
       \E nc \in (MaxSteps - 1)..(MaxSteps + 1) :
         \E sr \in 0..(nr - 1) : SimCall(EmptyGrid(nr, nc), sr, "right")
  /\ GenOff
  /\ CallsIdle

WideSpec == WideInit /\ [][Next]_vars

\* the grids of at most cells cells that hold only ".", "/" and "\"
RegularGrids(cells) ==
  UNION {[1..s[1] -> [1..s[2] -> {"."} \cup RegularMirrors]] : s \in Shapes(cells)}

\* a call simulate_laser(g, sr, sd) of test_all_providers.py followed by the
\* same call of test_gemini.py, on the regular grids of at most MaxCells
\* cells and on one empty row longer than the step ceiling
PairInit ==
  /\ \E g \in RegularGrids(MaxCells) \cup {EmptyGrid(1, MaxSteps + 1)} :
       \E sr \in 0..(Rows(g) - 1) :
         \E sd \in Directions : SimCall(g, sr, sd)
  /\ GenOff
  /\ CallsIdle

PairNext == Exit \/ Visit \/ Gemini_Call \/ Gemini_Exit \/ Gemini_Visit

PairSpec == PairInit /\ [][PairNext]_vars

\* a call generate_puzzle(size, min_bounces) for a small size profile
GenProfile ==
  [rows |-> <<1, 2>>, cols |-> <<2, 2>>, mirrors |-> <<0, 1>>,
   portals |-> {0, 1}, mirror_distribution |-> {<<100, 0, 0, 0>>},
   min_bounces |-> {0, 1}]

GenInit ==
  /\ SimIdle
  /\ gen_pc = "for"
  /\ gen_rows \in GenProfile.rows[1]..GenProfile.rows[2]
  /\ gen_cols \in GenProfile.cols[1]..GenProfile.cols[2]
  /\ mirror_count \in GenProfile.mirrors[1]..GenProfile.mirrors[2]
  /\ portal_count \in GenProfile.portals
  /\ mirror_distribution \in GenProfile.mirror_distribution
  /\ min_bounces \in GenProfile.min_bounces
  /\ mirror_count + 2 * portal_count <= gen_rows * gen_cols
  /\ attempt = 0
  /\ best_score = 0
  /\ best_puzzle = None
  /\ CallsIdle

GenNext == TrialStart \/ Exit \/ Visit \/ TrialEnd

GenSpec == GenInit /\ [][GenNext]_vars

\* generate_puzzle followed by a second trace of the puzzle it returned
RetraceNext == TrialStart \/ Exit \/ Visit \/ TrialEnd \/ Retrace

RetraceSpec == GenInit /\ [][RetraceNext]_vars

\* a call generate_grid(rows, cols, mirror_count, portal_count,
\* mirror_distribution) after line 41: the grid is all "."
GridCall(nr, nc, mc, np, dist) ==
  /\ SimIdle
  /\ gen_pc = "off"
  /\ gen_rows = nr
  /\ gen_cols = nc
  /\ mirror_count = mc
  /\ portal_count = np
  /\ mirror_distribution = dist
  /\ min_bounces = 0
  /\ attempt = 0
  /\ best_score = 0
  /\ best_puzzle = None
  /\ gg_pc = "counts"
  /\ gg_grid = EmptyGrid(nr, nc)
  /\ gg_counts = NoCounts
  /\ placed = 0
  /\ portal_index = 0
  /\ ReflectOff
  /\ LetterOff
  /\ RenderOff
  /\ MoreOff

\* the splits with every share 0 or 1 (as 100 : 0 : 0 : 0 and
\* 25 : 25 : 25 : 25 of PUZZLE_CONFIG are 1 : 0 : 0 : 0 and 1 : 1 : 1 : 1)
UnitSplits == {d \in [1..4 -> {0, 1}] : d[1] + d[2] + d[3] + d[4] > 0}

\* more portal pairs asked for than there are portal ids
ManyPortals ==
  [rows |-> 2, cols |-> 3, mirror_count |-> 0, portal_count |-> 4,
   mirror_distribution |-> <<100, 0, 0, 0>>]

\* calls that fit their grid and calls that do not
GridInit ==
  \/ \E s \in Shapes(MaxCells) :
       \E mc \in 0..(MaxCells + 1), np \in 0..MaxPortals, dist \in UnitSplits :
         GridCall(s[1], s[2], mc, np, dist)
  \/ GridCall(ManyPortals.rows, ManyPortals.cols, ManyPortals.mirror_count,
              ManyPortals.portal_count, ManyPortals.mirror_distribution)

GridNext ==
  \/ DeriveCounts
  \/ PlaceNormal
  \/ PlaceDegrading
  \/ PlaceToggle
  \/ PlaceFlipping
  \/ PlacePortals

GridSpec == GridInit /\ [][GridNext]_vars

\* the splits of PUZZLE_CONFIG
ConfigSplits == {<<100, 0, 0, 0>>, <<25, 25, 25, 25>>}

Splits ==
  {d \in [1..4 -> 0..MaxPct] : d[1] + d[2] + d[3] + d[4] > 0} \cup ConfigSplits

\* calls generate_grid(1, 1, mirror_count, 0, mirror_distribution) over a
\* range of mirror counts and splits
CountInit ==
  \E mc \in 0..MaxCount, dist \in Splits : GridCall(1, 1, mc, 0, dist)

CountSpec == CountInit /\ [][GridNext]_vars

\* the worked example of SYSTEM_PROMPT
WorkedExample ==
  [rows |-> 4, cols |-> 5, slash |-> <<1, 1>>, backslash |-> <<2, 2>>,
   start_row |-> 2]

\* the grid of the worked example with its "/" on the cell p
ExampleGrid(p) ==
  MakeGrid(WorkedExample.rows, WorkedExample.cols,
           (WorkedExample.backslash :> "\\") @@ (p :> "/"))

\* a call simulate_laser(g, sr) on the worked example and on the grids that
\* have its "/" elsewhere, from every start row
ExampleInit ==
  /\ \E p \in CellsOf(WorkedExample.rows, WorkedExample.cols)
                \ {WorkedExample.backslash} :
       \E sr \in 0..(WorkedExample.rows - 1) :
         SimCall(ExampleGrid(p), sr, "right")
  /\ GenOff
  /\ CallsIdle

ExampleSpec == ExampleInit /\ [][Next]_vars

\* get_next_direction of either script applied up to MaxReflections times,
\* from every direction
ReflectInit ==
  /\ SimIdle
  /\ GenOff
  /\ PlaceOff
  /\ ref_script \in Scripts
  /\ ref_start \in Directions
  /\ ref_mirrors = <<>>
  /\ ref_direction = ref_start
  /\ LetterOff
  /\ RenderOff
  /\ MoreOff

ReflectNext == Reflect

ReflectSpec == ReflectInit /\ [][ReflectNext]_vars

\* a call col_to_letter(c) for every column up to MaxColumn
LetterInit ==
  /\ SimIdle
  /\ GenOff
  /\ PlaceOff
  /\ ReflectOff
  /\ letter_pc = "call"
  /\ letter_col \in 1..MaxColumn
  /\ letters = <<>>
  /\ RenderOff
  /\ MoreOff

LetterNext == ColumnLetter

LetterSpec == LetterInit /\ [][LetterNext]_vars

\* a call generate_puzzle_ascii(g, sr) on the grids of at most MaxCells
\* cells and on the empty one-column grids of up to TallRows rows
RenderInit ==
  /\ SimIdle
  /\ GenOff
  /\ PlaceOff
  /\ ReflectOff
  /\ LetterOff
  /\ render_pc = "call"
  /\ render_grid \in Grids(MaxCells) \cup {EmptyGrid(nr, 1) : nr \in 1..TallRows}
  /\ render_start_row \in 0..(Rows(render_grid) - 1)
  /\ ascii = <<>>
  /\ MoreOff

RenderNext == RenderPuzzle

RenderSpec == RenderInit /\ [][RenderNext]_vars

\* ------------------------------------------------------------------------
\* Vocabulary of the properties
\* ------------------------------------------------------------------------
ExitEdges == {"top", "bottom", "left", "right"}

Returned == pc \in {"exit", "ceiling"}

\* number of recorded entries on the cell pos
Visits(pos) ==
  Cardinality({i \in 1..Len(path) : path[i].row = pos[1] /\ path[i].col = pos[2]})

\* the step records the cell pos
Visiting(pos) ==
  /\ pc = "loop"
  /\ row = pos[1]
  /\ col = pos[2]
  /\ Len(path') = Len(path) + 1

GlyphAt(pos) == Cell(grid, pos[1], pos[2])

\* the orientation drawn in a mirror glyph
Drawn(glyph) ==
  IF glyph \in {"/", "~", "[/", "]/", "{/"} THEN "/" ELSE "\\"

Opposite(orientation) == IF orientation = "/" THEN "\\" ELSE "/"

SlashTable ==
  ("right" :> "up") @@ ("left" :> "down") @@ ("up" :> "right")
    @@ ("down" :> "left")

BackslashTable ==
  ("right" :> "down") @@ ("left" :> "up") @@ ("up" :> "left")
    @@ ("down" :> "right")

Reflected(d, orientation) ==
  IF orientation = "/" THEN SlashTable[d] ELSE BackslashTable[d]

Horizontal(d) == d \in {"left", "right"}

AllEmpty(g) == \A p \in Positions(g) : Cell(g, p[1], p[2]) = "."

PortalPositions(g) == {p \in Positions(g) : Cell(g, p[1], p[2]) \in PortalGlyphs}

SameId(g, p) == {q \in Positions(g) : Cell(g, q[1], q[2]) = Cell(g, p[1], p[2])}

\* every portal id of the grid is on exactly two cells
PortalsPaired(g) ==
  \A p \in PortalPositions(g) : Cardinality(SameId(g, p)) = 2

HasPartner(g, p) ==
  /\ Cell(g, p[1], p[2]) \in PortalGlyphs
  /\ Cardinality(SameId(g, p)) = 2

Partner(g, p) == CHOOSE q \in SameId(g, p) : q # p

\* ------------------------------------------------------------------------
\* C1: on a grid whose cells are all empty, a ray started moving right ends
\* with exit edge "right" and position start_row + 1, no reflection, no
\* teleport, and a path of exactly cols entries, all on the start row.
\* ------------------------------------------------------------------------
C1_StraightLine ==
  (Returned /\ AllEmpty(grid) /\ start_direction = "right") =>
    /\ result.edge = "right"
    /\ result.position = start_row + 1
    /\ bounces = 0
    /\ teleports = 0
    /\ Len(path) = Cols(grid)
    /\ \A i \in 1..Len(path) : path[i].row = start_row

\* ------------------------------------------------------------------------
\* C2: when the trace ends by leaving the grid, exactly one coordinate of
\* the final position is out of range, by exactly one cell; the edge is that
\* side; the position is row + 1 for left and right, the letter of column
\* col + 1 for top and bottom.
\* ------------------------------------------------------------------------
C2_ExitDescriptor ==
  pc = "exit" =>
    LET rowOut == row < 0 \/ row >= Rows(grid)
        colOut == col < 0 \/ col >= Cols(grid)
    IN /\ rowOut # colOut
       /\ row \in -1..Rows(grid)
       /\ col \in -1..Cols(grid)
       /\ row < 0 =>
            result.edge = "top" /\ result.position = <<Alphabet[col + 1]>>
       /\ row >= Rows(grid) =>
            result.edge = "bottom" /\ result.position = <<Alphabet[col + 1]>>
       /\ col < 0 => result.edge = "left" /\ result.position = row + 1
       /\ col >= Cols(grid) =>
            result.edge = "right" /\ result.position = row + 1

C2_Witness ==
  /\ pc = "exit"
  /\ result.edge = "top"
  /\ bounces = 1
  /\ Len(path) > 1

\* ------------------------------------------------------------------------
\* C3: a trace stopped by the step ceiling returns a result that is not an
\* exit edge and position.
\* ------------------------------------------------------------------------
C3_RunawayDistinguished ==
  pc = "ceiling" => result.edge \notin ExitEdges

\* ------------------------------------------------------------------------
\* C4: on a grid whose portal ids are each on exactly two cells the trace
\* terminates, the step ceiling halting every ray that reaches no boundary.
\* The ceiling is tested on every step that is not a teleport, and a ray
\* that terminates teleports at most once per portal cell in a row, so a
\* terminating trace is never in the loop with more than MaxSteps entries
\* plus one per portal cell.
\* ------------------------------------------------------------------------
C4_HaltedByCeiling ==
  (pc = "loop" /\ PortalsPaired(grid)) =>
    Len(path) <= MaxSteps + Cardinality(PortalPositions(grid))

\* ------------------------------------------------------------------------
\* C5: a degrading mirror reflects (and counts one reflection) on the first
\* visit to its cell only; it is broken from then on, and every later visit
\* leaves direction and reflection count unchanged.
\* ------------------------------------------------------------------------
C5_DegradingStep ==
  \A pos \in Positions(grid) :
    GlyphAt(pos) \in {"~", Grave} =>
      /\ (pos \in degraded_mirrors) = (Visits(pos) > 0)
      /\ pos \in degraded_mirrors => pos \in degraded_mirrors'
      /\ Visiting(pos) =>
           IF Visits(pos) = 0
           THEN /\ direction' = Reflected(direction, Drawn(GlyphAt(pos)))
                /\ bounces' = bounces + 1
                /\ pos \in degraded_mirrors'
           ELSE /\ direction' = direction
                /\ bounces' = bounces

C5_DegradingOnce == [][pc = "loop" => C5_DegradingStep]_vars

C5_Witness ==
  \E pos \in Positions(grid) :
    /\ GlyphAt(pos) \in {"~", Grave}
    /\ Visits(pos) >= 2
    /\ bounces = 1

\* ------------------------------------------------------------------------
\* C6: a toggle mirror that starts ON reflects on its odd visits and passes
\* the ray straight on its even visits, one that starts OFF the opposite;
\* its state flips on every visit, the reflection count grows on reflecting
\* visits only, and its orientation is the one drawn, on every visit.
\* ------------------------------------------------------------------------
C6_ToggleStep ==
  \A pos \in Positions(grid) :
    GlyphAt(pos) \in {"[/", "[\\", "]/", "]\\"} =>
      LET k == Visits(pos)
          startsOn == GlyphAt(pos) \in {"[/", "[\\"}
          \* ON after k flips
          on == (startsOn = (k % 2 = 0))
      IN /\ k > 0 => (pos \in DOMAIN toggle_state /\ toggle_state[pos] = on)
         /\ Visiting(pos) =>
              /\ toggle_state'[pos] = ~on
              /\ IF on
                 THEN /\ direction' = Reflected(direction, Drawn(GlyphAt(pos)))
                      /\ bounces' = bounces + 1
                 ELSE /\ direction' = direction
                      /\ bounces' = bounces

C6_ToggleAlternates == [][pc = "loop" => C6_ToggleStep]_vars

C6_Witness ==
  \E pos \in Positions(grid) :
    /\ GlyphAt(pos) \in {"[/", "[\\"}
    /\ Visits(pos) = 3
    /\ bounces = 2

\* ------------------------------------------------------------------------
\* C7: a flipping mirror reflects on every visit and counts one reflection
\* each time; the k-th visit reflects with the initial orientation when k is
\* odd, with the opposite orientation when k is even.
\* ------------------------------------------------------------------------
C7_FlippingStep ==
  \A pos \in Positions(grid) :
    (GlyphAt(pos) \in {"{/", "{\\"} /\ Visiting(pos)) =>
      LET k == Visits(pos) + 1
          orientation == IF k % 2 = 1
                         THEN Drawn(GlyphAt(pos))
                         ELSE Opposite(Drawn(GlyphAt(pos)))
      IN /\ direction' = Reflected(direction, orientation)
         /\ bounces' = bounces + 1

C7_FlippingAlternates == [][pc = "loop" => C7_FlippingStep]_vars

C7_Witness ==
  \E pos \in Positions(grid) :
    /\ GlyphAt(pos) \in {"{/", "{\\"}
    /\ Visits(pos) = 2
    /\ bounces = 2

\* ------------------------------------------------------------------------
\* C8: entering a portal cell whose partner exists, in direction d, adds
\* exactly one teleport, leaves reflection count and direction unchanged,
\* and the next position examined is one step in direction d past the
\* partner; the teleport records the entered cell only, not the partner, so
\* a partner on the edge facing d makes the ray leave the grid at once.
\* ------------------------------------------------------------------------
C8_PortalStep ==
  \A pos \in Positions(grid) :
    (HasPartner(grid, pos) /\ Visiting(pos)) =>
      LET q == Partner(grid, pos)
      IN /\ teleports' = teleports + 1
         /\ bounces' = bounces
         /\ direction' = direction
         /\ <<row', col'>> = Advance(q[1], q[2], direction)
         /\ path' = Append(path, [row |-> pos[1], col |-> pos[2],
                                  direction |-> direction])
         /\ pc' = "loop"

\* the step that follows a teleport past the edge is the exit
C8_ExitAfterTeleport ==
  (/\ Len(path) > 0
   /\ HasPartner(grid, <<path[Len(path)].row, path[Len(path)].col>>)
   /\ ~InGrid(grid, row, col)) =>
    /\ pc' = "exit"
    /\ path' = path
    /\ teleports' = teleports

C8_Teleport ==
  [][pc = "loop" => (C8_PortalStep /\ C8_ExitAfterTeleport)]_vars

\* the ray entered a portal as its first cell and is out of the grid
C8_Witness ==
  /\ pc = "exit"
  /\ Len(path) = 1
  /\ HasPartner(grid, <<path[1].row, path[1].col>>)
  /\ teleports = 1
  /\ <<row, col>> = Advance(Partner(grid, <<path[1].row, path[1].col>>)[1],
                            Partner(grid, <<path[1].row, path[1].col>>)[2],
                            path[1].direction)

\* ------------------------------------------------------------------------
\* C9: get_next_direction is total on the 8 (direction, orientation) pairs
\* and equals the reflection table; its result is perpendicular to its
\* input and, for a fixed orientation, it is a bijection on directions.
\* Checked on the direction the ray takes at every regular mirror it enters.
\* ------------------------------------------------------------------------
C9_ReflectionTable ==
  /\ \A m \in RegularMirrors :
       /\ \A d \in Directions :
            /\ GetNextDirection(d, m) \in Directions
            /\ GetNextDirection(d, m) = Reflected(d, m)
            /\ Horizontal(GetNextDirection(d, m)) # Horizontal(d)
       /\ {GetNextDirection(d, m) : d \in Directions} = Directions
  /\ (Len(path) > 0
      /\ Cell(grid, path[Len(path)].row, path[Len(path)].col) \in RegularMirrors)
       => LET last == path[Len(path)]
          IN /\ direction = Reflected(last.direction,
                                      Cell(grid, last.row, last.col))
             /\ Horizontal(direction) # Horizontal(last.direction)

C9_Witness ==
  /\ Len(path) > 0
  /\ Cell(grid, path[Len(path)].row, path[Len(path)].col) = "\\"
  /\ path[Len(path)].direction = "up"
  /\ direction = "left"

\* ------------------------------------------------------------------------
\* C10: generate_puzzle always returns a puzzle, never an absent result.
\* ------------------------------------------------------------------------
C10_ReturnsPuzzle ==
  gen_pc = "returned" => best_puzzle # None

\* ------------------------------------------------------------------------
\* Vocabulary of the generator properties
\* ------------------------------------------------------------------------
\* the step starts a trial
StartsTrial == gen_pc = "for" /\ gen_pc' = "sim"

\* the step ends a trial
EndsTrial == gen_pc = "sim" /\ gen_pc' # "sim"

Threshold == 2 * min_bounces

Max(a, b) == IF a > b THEN a ELSE b

\* ------------------------------------------------------------------------
\* C11: generate_puzzle runs at most 100 trials; it runs the smallest number
\* n >= 1 of trials after which the best score is at least 2 x min_bounces,
\* or 100 when there is none; no trial starts once the threshold is reached.
\* ------------------------------------------------------------------------
C11_TrialStep ==
  /\ attempt \in 0..MaxAttempts
  /\ StartsTrial =>
       /\ attempt < MaxAttempts
       /\ attempt' = attempt + 1
       /\ attempt > 0 => best_score < Threshold
  /\ (EndsTrial /\ gen_pc' = "for") =>
       /\ best_score' < Threshold
       /\ attempt' < MaxAttempts
  /\ (EndsTrial /\ gen_pc' = "returned") =>
       /\ attempt' \in 1..MaxAttempts
       /\ best_score' >= Threshold \/ attempt' = MaxAttempts
  /\ EndsTrial => attempt' = attempt

C12_BestStep ==
  /\ best_score' >= best_score
  /\ best_puzzle # None =>
       best_puzzle.bounces + 2 * best_puzzle.teleports = best_score
  /\ best_puzzle = None => best_score = 0
  /\ ~EndsTrial => (best_score' = best_score /\ best_puzzle' = best_puzzle)
  /\ EndsTrial =>
       LET score == bounces + 2 * teleports
       IN /\ best_score' = Max(best_score, score)
          /\ IF score > best_score
             THEN /\ best_puzzle' # None
                  /\ best_puzzle'.grid = grid
                  /\ best_puzzle'.start_row = start_row
                  /\ best_puzzle'.bounces = bounces
                  /\ best_puzzle'.teleports = teleports
             ELSE best_puzzle' = best_puzzle

C12_BestIsEarliestMax == [][gen_pc # "off" => C12_BestStep]_vars

\* the last trial equalled the best score and the earlier candidate was kept
C12_Witness ==
  /\ gen_pc = "returned"
  /\ best_puzzle # None
  /\ attempt > 1
  /\ bounces + 2 * teleports = best_score
  /\ best_puzzle.grid # grid

\* ------------------------------------------------------------------------
\* Vocabulary of the grid generation properties
\* ------------------------------------------------------------------------
Holding(g, glyphs) == {p \in Positions(g) : Cell(g, p[1], p[2]) \in glyphs}

NonEmpty(g) == {p \in Positions(g) : Cell(g, p[1], p[2]) # "."}

TotalPct ==
  mirror_distribution[1] + mirror_distribution[2] + mirror_distribution[3]
    + mirror_distribution[4]

\* n is num / den truncated
Truncated(n, num, den) == n >= 0 /\ n * den <= num /\ num < (n + 1) * den

\* the truncated value of mirror_count x pct / total
Share(pct) ==
  CHOOSE n \in 0..mirror_count : Truncated(n, mirror_count * pct, TotalPct)

PlacedPairs == Min(portal_count, 3)

Fits == gen_rows * gen_cols >= mirror_count + 2 * PlacedPairs

\* the test of the running loop passes: an element is still to be placed
WantsMore ==
  \/ gg_pc = "normal" /\ placed < gg_counts.normal
  \/ gg_pc = "degrading" /\ placed < gg_counts.degrading
  \/ gg_pc = "toggle" /\ placed < gg_counts.toggle
  \/ gg_pc = "flipping" /\ placed < gg_counts.flipping
  \/ gg_pc = "portals" /\ portal_index < PlacedPairs /\ placed < 2

\* ------------------------------------------------------------------------
\* C13: when rows x cols >= mirror_count + 2 x min(portal_count, 3), the
\* grid generate_grid returns has each of the first min(portal_count, 3)
\* portal ids on exactly two cells and no other portal id, the derived
\* number of cells of each mirror kind, and mirror_count +
\* 2 x min(portal_count, 3) non-empty cells; every placement fills one cell
\* that was empty.
\* ------------------------------------------------------------------------
C13_Returned ==
  /\ \A i \in 1..Len(PORTAL_CELLS) :
       Cardinality(Holding(gg_grid, {PORTAL_CELLS[i]})) =
         IF i <= PlacedPairs THEN 2 ELSE 0
  /\ Cardinality(Holding(gg_grid, RegularMirrors)) =
       Share(mirror_distribution[1])
  /\ Cardinality(Holding(gg_grid, DOMAIN DEGRADING_MIRRORS)) =
       Share(mirror_distribution[2])
  /\ Cardinality(Holding(gg_grid, DOMAIN TOGGLE_MIRRORS_ON
                                    \cup DOMAIN TOGGLE_MIRRORS_OFF)) =
       Share(mirror_distribution[3])
  /\ Cardinality(Holding(gg_grid, DOMAIN FLIPPING_MIRRORS)) =
       mirror_count - Share(mirror_distribution[1])
         - Share(mirror_distribution[2]) - Share(mirror_distribution[3])
  /\ Cardinality(NonEmpty(gg_grid)) = mirror_count + 2 * PlacedPairs

C13_NoOverwrite ==
  gg_grid' # gg_grid =>
    \E p \in Positions(gg_grid) :
      /\ Cell(gg_grid, p[1], p[2]) = "."
      /\ Cell(gg_grid', p[1], p[2]) # "."
      /\ \A q \in Positions(gg_grid) \ {p} :
           Cell(gg_grid', q[1], q[2]) = Cell(gg_grid, q[1], q[2])

C13_GridComplete ==
  [][gg_pc # "off" =>
       /\ C13_NoOverwrite
       /\ (gg_pc' = "done" /\ Fits) => C13_Returned']_vars

\* a returned grid with mirrors and portals and no empty cell
C13_Witness ==
  /\ gg_pc = "done"
  /\ mirror_count > 0
  /\ portal_count > 0
  /\ NonEmpty(gg_grid) = Positions(gg_grid)

\* ------------------------------------------------------------------------
\* C14: when mirror_count + 2 x portals > rows x cols, generation ends with
\* an explicit placement failure after a bounded number of attempts: the
\* call is never left testing cells of a grid without an empty cell while
\* an element is still to be placed.
\* ------------------------------------------------------------------------
C14_PlacementFailure ==
  (mirror_count + 2 * portal_count > gen_rows * gen_cols) =>
    ~(WantsMore /\ NonEmpty(gg_grid) = Positions(gg_grid))

\* ------------------------------------------------------------------------
\* C18: for mirror_count >= 0 and a split with a positive total, the normal,
\* degrading and toggle counts are mirror_count x pct / total truncated, the
\* flipping count is the remainder, the four counts are non-negative and
\* their sum is mirror_count.
\* ------------------------------------------------------------------------
C18_DeriveStep ==
  (gg_pc = "counts" /\ gg_pc' = "normal") =>
    LET k == gg_counts'
    IN /\ Truncated(k.normal, mirror_count * mirror_distribution[1], TotalPct)
       /\ Truncated(k.degrading, mirror_count * mirror_distribution[2],
                    TotalPct)
       /\ Truncated(k.toggle, mirror_count * mirror_distribution[3], TotalPct)
       /\ k.flipping = mirror_count - k.normal - k.degrading - k.toggle
       /\ k.flipping >= 0
       /\ k.normal + k.degrading + k.toggle + k.flipping = mirror_count

C18_KindCounts == [][C18_DeriveStep]_vars

\* a share was truncated and the remainder went to a flipping kind of share 0
C18_Witness ==
  /\ gg_pc \notin {"off", "counts"}
  /\ (mirror_count * mirror_distribution[1]) % TotalPct # 0
  /\ mirror_distribution[4] = 0
  /\ gg_counts.flipping > 0

\* ------------------------------------------------------------------------
\* C15: on the 4 x 5 grid with "/" at (1, 1) and "\" at (2, 2), a ray
\* started on row 2 moving right visits (2,0), (2,1), (2,2), (3,2) in that
\* order, reflects exactly once and exits the bottom edge at column C.
\* ------------------------------------------------------------------------
C15_Scenario ==
  /\ grid = ExampleGrid(<<1, 1>>)
  /\ Rows(grid) = 4
  /\ Cols(grid) = 5
  /\ NonEmpty(grid) = {<<1, 1>>, <<2, 2>>}
  /\ Cell(grid, 2, 2) = "\\"
  /\ start_row = 2
  /\ start_direction = "right"

C15_WorkedExample ==
  C15_Scenario =>
    /\ pc # "ceiling"
    /\ pc = "exit" =>
         /\ [i \in 1..Len(path) |-> <<path[i].row, path[i].col>>] =
              << <<2, 0>>, <<2, 1>>, <<2, 2>>, <<3, 2>> >>
         /\ bounces = 1
         /\ teleports = 0
         /\ result = [edge |-> "bottom", position |-> <<"C">>]

\* the ray of the worked example has left the grid
C15_Witness == C15_Scenario /\ pc = "exit"

\* ------------------------------------------------------------------------
\* C16: when the ray enters a portal cell whose id is on no other cell, the
\* cell behaves as an empty one: the ray advances exactly one cell in its
\* unchanged direction, and the teleport and reflection counts are
\* unchanged.
\* ------------------------------------------------------------------------
LonePortal(g, p) ==
  /\ Cell(g, p[1], p[2]) \in PortalGlyphs
  /\ SameId(g, p) = {p}

OneCellOn(p, d) ==
  <<p[1] + (IF d = "down" THEN 1 ELSE IF d = "up" THEN -1 ELSE 0),
    p[2] + (IF d = "right" THEN 1 ELSE IF d = "left" THEN -1 ELSE 0)>>

C16_LonePortalStep ==
  \A pos \in Positions(grid) :
    (LonePortal(grid, pos) /\ Visiting(pos)) =>
      /\ <<row', col'>> = OneCellOn(pos, direction)
      /\ direction' = direction
      /\ teleports' = teleports
      /\ bounces' = bounces
      /\ path'[Len(path')] =
           [row |-> pos[1], col |-> pos[2], direction |-> direction]

C16_LonePortalIsEmpty == [][pc = "loop" => C16_LonePortalStep]_vars

\* the ray has just crossed a portal without partner while moving up
C16_Witness ==
  /\ Len(path) > 0
  /\ LonePortal(grid, <<path[Len(path)].row, path[Len(path)].col>>)
  /\ path[Len(path)].direction = "up"
  /\ direction = "up"
  /\ <<row, col>> = <<path[Len(path)].row - 1, path[Len(path)].col>>
  /\ teleports = 0

\* ------------------------------------------------------------------------
\* C17: for every direction d, four applications of get_next_direction with
\* orientations alternating between "/" and "\" (starting with either one)
\* return d, and two applications with the same orientation return d.
\* ------------------------------------------------------------------------
Alternating(mirrors) ==
  \A i \in 1..(Len(mirrors) - 1) : mirrors[i] # mirrors[i + 1]

C17_RoundTrip ==
  /\ (Len(ref_mirrors) = 4 /\ Alternating(ref_mirrors)) =>
       ref_direction = ref_start
  /\ (Len(ref_mirrors) = 2 /\ ref_mirrors[1] = ref_mirrors[2]) =>
       ref_direction = ref_start

\* four alternating applications starting with "\", from direction up
C17_Witness ==
  /\ ref_script = "test_gemini"
  /\ ref_start = "up"
  /\ ref_mirrors = <<"\\", "/", "\\", "/">>
  /\ ref_direction = "up"

\* ------------------------------------------------------------------------
\* C19: col_to_letter is the 1-indexed bijective base-26 encoding: 1..26
\* give "A".."Z", 27 gives "AA", 52 "AZ", 53 "BA"; it is injective on the
\* positive integers, and decoding the letters as bijective base-26 digits
\* gives back the input.
\* ------------------------------------------------------------------------
\* the digit 1..26 of a letter
Digit(letter) == CHOOSE i \in 1..26 : Alphabet[i] = letter

RECURSIVE Decode(_)
Decode(s) ==
  IF s = <<>>
  THEN 0
  ELSE 26 * Decode(SubSeq(s, 1, Len(s) - 1)) + Digit(s[Len(s)])

C19_BijectiveBase26 ==
  letter_pc = "returned" =>
    /\ Len(letters) >= 1
    /\ \A i \in 1..Len(letters) : \E k \in 1..26 : letters[i] = Alphabet[k]
    /\ Decode(letters) = letter_col
    /\ letter_col <= 26 => letters = <<Alphabet[letter_col]>>
    /\ letter_col = 1 => letters = <<"A">>
    /\ letter_col = 26 => letters = <<"Z">>
    /\ letter_col = 27 => letters = <<"A", "A">>
    /\ letter_col = 52 => letters = <<"A", "Z">>
    /\ letter_col = 53 => letters = <<"B", "A">>
    /\ \A other \in 1..MaxColumn :
         other # letter_col => ColToLetter(other) # letters

\* column 53 was encoded
C19_Witness ==
  /\ letter_pc = "returned"
  /\ letter_col = 53
  /\ letters = <<"B", "A">>

\* ------------------------------------------------------------------------
\* C20: the text of generate_puzzle_ascii depends on (grid, start_row) only;
\* it has rows + 3 lines, and the entry marker ">" directly follows the "|"
\* on exactly one grid line, the line of start_row; every other grid line
\* has a space there.
\* ------------------------------------------------------------------------
FirstIndex(s, ch) == CHOOSE i \in 1..Len(s) : s[i] = ch /\ \A j \in 1..(i - 1) : s[j] # ch

\* the lines of a text
RECURSIVE SplitLines(_)
SplitLines(s) ==
  IF \A i \in 1..Len(s) : s[i] # "\n"
  THEN <<s>>
  ELSE <<SubSeq(s, 1, FirstIndex(s, "\n") - 1)>>
         \o SplitLines(SubSeq(s, FirstIndex(s, "\n") + 1, Len(s)))

\* ">" directly follows a "|" on the line
Marked(line) ==
  \E i \in 1..(Len(line) - 1) : line[i] = "|" /\ line[i + 1] = ">"

C20_Rendering ==
  render_pc = "returned" =>
    LET lines == SplitLines(ascii)
        rows == Rows(render_grid)
        GridLine(r) == lines[r + 3]
    IN /\ Len(lines) = rows + 3
       /\ \A k \in {1, 2, rows + 3} : ~Marked(lines[k])
       /\ \A r \in 0..(rows - 1) :
            /\ Marked(GridLine(r)) <=> r = render_start_row
            /\ r # render_start_row =>
                 GridLine(r)[FirstIndex(GridLine(r), "|") + 1] = " "
       /\ Cardinality({r \in 0..(rows - 1) : Marked(GridLine(r))}) = 1

\* a grid of more than nine rows was rendered with the marker on row 10
C20_Witness ==
  /\ render_pc = "returned"
  /\ Rows(render_grid) > 9
  /\ render_start_row = 9
  /\ SubSeq(SplitLines(ascii)[12], 1, 4) = <<"1", "0", "|", ">">>

\* ------------------------------------------------------------------------
\* C21: for a start row inside a grid of at least one column, the ray is not
\* reported as leaving by the left edge at its origin: the first recorded
\* path entry is (start_row, column 0) with the start direction.
\* ------------------------------------------------------------------------
C21_FirstEntry ==
  /\ Len(path) = 0 => (pc = "loop" /\ row = start_row /\ col = 0)
  /\ Len(path) >= 1 =>
       path[1] = [row |-> start_row, col |-> 0, direction |-> start_direction]
  /\ Returned => Len(path) >= 1

\* a ray started to the left has left by the left edge after one entry
C21_Witness ==
  /\ pc = "exit"
  /\ start_direction = "left"
  /\ result = [edge |-> "left", position |-> start_row + 1]
  /\ path = <<[row |-> start_row, col |-> 0, direction |-> "left"]>>

\* ------------------------------------------------------------------------
\* C22: the step ceiling is enforced at the first step that exceeds it: in
\* every reachable state of simulate_laser the path holds at most 1001
\* entries, also when the entries just before the ceiling are portal cells.
\* ------------------------------------------------------------------------
C22_CeilingEnforced == Len(path) <= MaxSteps + 1

\* ------------------------------------------------------------------------
\* C23: the puzzle generate_puzzle returns is self-consistent: its exit
\* descriptor, bounces, teleports and path length are the result of the
\* trace run on the returned grid from the returned start row, later trials
\* do not alter it, and a second trace of the returned grid from the
\* returned start row gives the same exit and counters.
\* ------------------------------------------------------------------------
\* the puzzle holds what the trace in the simulator variables has returned
OfThisTrace(puzzle) ==
  /\ puzzle.grid = grid
  /\ puzzle.start_row = start_row
  /\ puzzle.answer = result
  /\ puzzle.bounces = bounces
  /\ puzzle.teleports = teleports
  /\ puzzle.path_length = Len(path)

C23_Step ==
  /\ (EndsTrial /\ best_puzzle' # best_puzzle) =>
       (Returned /\ OfThisTrace(best_puzzle'))
  /\ ~EndsTrial => best_puzzle' = best_puzzle
  /\ (EndsTrial /\ bounces + 2 * teleports <= best_score) =>
       best_puzzle' = best_puzzle
  /\ (gen_pc' = "retrace" /\ Returned') => OfThisTrace(best_puzzle)'

C23_SelfConsistent == [][gen_pc # "off" => C23_Step]_vars

\* the second trace of a puzzle found before the last trial has returned
C23_Witness ==
  /\ gen_pc = "retrace"
  /\ pc = "exit"
  /\ attempt = MaxAttempts
  /\ best_puzzle.bounces = 1
  /\ best_puzzle.path_length > 1

\* ------------------------------------------------------------------------
\* C24: simulate_laser never changes a cell of the grid it is given: the
\* grid after a trace equals the grid before it, the text rendered after
\* the trace shows every element in its initial state, and two successive
\* traces of the same grid and start row give identical paths, exits and
\* counters.
\* ------------------------------------------------------------------------
C24_Step ==
  /\ grid' = grid
  /\ GeneratePuzzleAscii(grid', start_row') =
       GeneratePuzzleAscii(grid, start_row)
  /\ (first_trace' # None /\ Returned') =>
       /\ first_trace'.grid = grid'
       /\ first_trace'.path = path'
       /\ first_trace'.exit = result'
       /\ first_trace'.bounces = bounces'
       /\ first_trace'.teleports = teleports'

C24_GridUntouched == [][C24_Step]_vars

\* the second trace has returned after reflecting on a mirror that keeps
\* state
C24_Witness ==
  /\ first_trace # None
  /\ pc = "exit"
  /\ bounces >= 1
  /\ degraded_mirrors # {} \/ DOMAIN toggle_state # {} \/ DOMAIN flip_state # {}

\* ------------------------------------------------------------------------
\* C25: in a grid of empty cells, regular mirrors and correctly paired
\* portals only, a ray entering at column 0 moving right never records the
\* same (row, column, direction) twice; it has at most 4 x rows x cols
\* recorded steps and never takes the runaway fallback when that bound is
\* within the ceiling.
\* ------------------------------------------------------------------------
Plain(g) ==
  /\ \A p \in Positions(g) :
       Cell(g, p[1], p[2]) \in {"."} \cup RegularMirrors \cup PortalGlyphs
  /\ PortalsPaired(g)

C25_NoRepeat ==
  (Plain(grid) /\ start_direction = "right") =>
    /\ \A i \in 1..Len(path) : \A j \in 1..Len(path) :
         i # j => path[i] # path[j]
    /\ Len(path) <= 4 * Rows(grid) * Cols(grid)
    /\ 4 * Rows(grid) * Cols(grid) <= MaxSteps => pc # "ceiling"

\* a ray that was teleported and then reflected has left the grid
C25_Witness ==
  /\ Plain(grid)
  /\ pc = "exit"
  /\ teleports = 1
  /\ bounces = 1

\* ------------------------------------------------------------------------
\* C26: every entry recorded in the path lies inside the grid, and each
\* entry is one cell in the travel direction from the previous entry, or
\* from the partner of the previous entry when that was a portal cell with a
\* partner.
\* ------------------------------------------------------------------------
EntryCell(e) == <<e.row, e.col>>

C26_Step ==
  Len(path') = Len(path) + 1 =>
    LET e == path'[Len(path')]
    IN /\ SubSeq(path', 1, Len(path)) = path
       /\ e.row >= 0 /\ e.row < Rows(grid)
       /\ e.col >= 0 /\ e.col < Cols(grid)
       /\ Len(path) >= 1 =>
            LET prev == EntryCell(path[Len(path)])
                from == IF HasPartner(grid, prev) THEN Partner(grid, prev)
                        ELSE prev
            IN EntryCell(e) = OneCellOn(from, e.direction)

C26_PathInGrid == [][pc = "loop" => C26_Step]_vars

\* an entry was recorded one cell below the partner of a portal
C26_Witness ==
  /\ Len(path) >= 2
  /\ HasPartner(grid, EntryCell(path[Len(path) - 1]))
  /\ path[Len(path)].direction = "down"
  /\ EntryCell(path[Len(path)]) =
       OneCellOn(Partner(grid, EntryCell(path[Len(path) - 1])), "down")

\* ------------------------------------------------------------------------
\* C27: at every point of a trace the counters agree with the path:
\* teleports is the number of recorded entries on portal cells that have a
\* partner, bounces is the number of recorded entries at which the direction
\* of the ray changed, neither counter ever decreases, and bounces +
\* teleports is at most the path length.
\* ------------------------------------------------------------------------
\* the direction the ray had after the i-th entry
DirectionAfter(i) ==
  IF i < Len(path) THEN path[i + 1].direction ELSE direction

C27_Agree ==
  /\ teleports =
       Cardinality({i \in 1..Len(path) : HasPartner(grid, EntryCell(path[i]))})
  /\ bounces =
       Cardinality({i \in 1..Len(path) : DirectionAfter(i) # path[i].direction})
  /\ bounces + teleports <= Len(path)

\* the counters follow the path entry by entry
C27_Step ==
  /\ Len(path) = 0 => (bounces = 0 /\ teleports = 0)
  /\ IF Len(path') = Len(path) + 1
     THEN LET e == path'[Len(path')]
          IN /\ teleports' = teleports
                  + (IF HasPartner(grid, EntryCell(e)) THEN 1 ELSE 0)
             /\ bounces' = bounces
                  + (IF direction' # e.direction THEN 1 ELSE 0)
     ELSE path' = path /\ teleports' = teleports /\ bounces' = bounces
  /\ bounces' + teleports' <= Len(path')

\* entry by entry during the trace, and as a whole when it returns
C27_CountersAgree ==
  [][pc = "loop" =>
       /\ C27_Step
       /\ bounces' >= bounces
       /\ teleports' >= teleports
       /\ Returned' => C27_Agree']_vars

\* a returned trace with a teleport, a reflection and a cell crossed straight
C27_Witness ==
  /\ pc = "exit"
  /\ teleports >= 1
  /\ bounces >= 1
  /\ bounces + teleports < Len(path)

\* ------------------------------------------------------------------------
\* C28: on every grid that holds only empty cells and regular "/" and "\"
\* mirrors, simulate_laser of test_gemini.py and simulate_laser of
\* test_all_providers.py produce the same path and the same exit descriptor
\* for every start row and start direction, step for step.
\* ------------------------------------------------------------------------
RegularOnly(g) ==
  \A p \in Positions(g) : Cell(g, p[1], p[2]) \in {"."} \cup RegularMirrors

C28_SameTrace ==
  (RegularOnly(grid) /\ gm_pc # "off") =>
    /\ Len(gm_path) <= Len(path)
    /\ Len(gm_path) >= 1 => gm_path[Len(gm_path)] = path[Len(gm_path)]
    /\ gm_pc = "loop" =>
         \/ /\ Len(gm_path) < Len(path)
            /\ gm_row = path[Len(gm_path) + 1].row
            /\ gm_col = path[Len(gm_path) + 1].col
            /\ gm_direction = path[Len(gm_path) + 1].direction
         \/ /\ Len(gm_path) = Len(path)
            /\ <<gm_row, gm_col, gm_direction>> = <<row, col, direction>>
    /\ gm_pc \in {"exit", "ceiling"} =>
         /\ gm_pc = pc
         /\ gm_path = path
         /\ gm_result = result

\* both calls have returned after two reflections, started upward
C28_Witness ==
  /\ RegularOnly(grid)
  /\ gm_pc = "exit"
  /\ start_direction = "up"
  /\ bounces = 2
  /\ gm_path = path
  /\ gm_result = result

====
